---------------------------- MODULE Spec2Model ----------------------------
(***************************************************************************)
(* vault-raft-backup: one invocation configures a Vault client,            *)
(* authenticates, streams a Raft snapshot into a staging file and uploads  *)
(* that file to S3.                                                        *)
(*                                                                         *)
(* The driver and the client configuration are those of the revision that  *)
(* has vaultClientConfig (src/unnamed/part_000, lines 43-232); the         *)
(* snapshot, upload and close functions are the same text in src/main.go.  *)
(* Library calls (Vault API, os, AWS SDK) are steps whose outcome the      *)
(* environment chooses; os.File.Close follows the Go runtime: a second     *)
(* Close of a handle returns os.ErrClosed.                                 *)
(***************************************************************************)
EXTENDS Integers, Sequences, FiniteSets, TLC

\* ------------------------------------------------------------ bounds
NumRuns == 2
MaxLen == 2
MaxByte == 2

\* --------------------------------------------------- program constants
TokenLen == 26

Sentinel == <<"a", "w", "s", "-", "i", "a", "m">>

\* ------------------------------------------------------------- inputs
Runs == 1..NumRuns

Tok(n) == [i \in 1..n |-> "s"]

\* VAULT_TOKEN: the sentinel, a well-formed token, and malformed ones
\* (unset, as long as the sentinel, one short, one long).
Tokens ==
    {Sentinel, Tok(TokenLen), Tok(0), Tok(Len(Sentinel)),
     Tok(TokenLen - 1), Tok(TokenLen + 1)}

\* VAULT_SKIP_VERIFY: the unset variable reads as "".
SkipVerifyValues == {"true", "false", "1", "", "yes"}

\* VAULT_SNAPSHOT_PATH
Paths ==
    { <<"/", "a", "/", "s">>, <<"/", "b", "/", "s">>, <<"/", "a", "/", "t">> }

\* S3_PREFIX, S3_BUCKET
Prefixes == { <<"n">>, <<"m">> }

Buckets == {"bucket"}

Bytes == 1..MaxByte

\* The snapshots the cluster may stream: opaque, non-empty.
Payloads == UNION { [1..n -> Bytes] : n \in 1..MaxLen }

\* What a staging path may hold before a run: nothing, or the snapshot an
\* earlier run left, longer than any snapshot streamed now.
Absent == << -1 >>

Old == [i \in 1..(MaxLen + 1) |-> 1]

Environments ==
    [VAULT_TOKEN : Tokens, VAULT_SKIP_VERIFY : SkipVerifyValues,
     VAULT_SNAPSHOT_PATH : Paths, S3_BUCKET : Buckets, S3_PREFIX : Prefixes]

DefaultEnv ==
    [VAULT_TOKEN |-> Tok(TokenLen), VAULT_SKIP_VERIFY |-> "true",
     VAULT_SNAPSHOT_PATH |-> <<"/", "a", "/", "s">>, S3_BUCKET |-> "bucket",
     S3_PREFIX |-> <<"n">>]

\* ------------------------------------------------------- error values
NoErr == "nil"

ErrClosed == "file already closed"

\* ---------------------------------------------------------- variables
VARIABLES
    env,          \* run -> the process environment of the invocation
    fs,           \* path -> content of the file there, or Absent
    s3,           \* the objects of the bucket: [bucket, key, body]
    pc,           \* run -> the statement the run executes next
    insecure,     \* run -> VaultConfig.insecure
    client,       \* run -> the client built in vaultClientConfig, <<>> = nil
    vaultClient,  \* run -> main's vaultClient, <<>> = nil
    err,          \* run -> the err of the function in progress
    wfile,        \* run -> the handle vaultRaftSnapshot opened
    rfile,        \* run -> the handle snapshotS3Upload opened
    payload,      \* run -> the snapshot the cluster streams in this run
    snapshotFile, \* run -> main's snapshotFile, <<>> = nil
    uploadResult, \* run -> main's uploadResult, <<>> = nil
    out,          \* run -> the lines written to stdout and stderr
    exit,         \* run -> -1 while running, else the exit status
    trace,        \* run -> history: the operations performed, in order, each
                  \* [op, file, err]: the call, the handle it acts on
                  \* ("w", "r" or "") and the error it returned
    fs0,          \* history: fs as the runs found it
    uploadInput   \* run -> history: the s3manager.UploadInput of the run's
                  \* call of Upload, <<>> before the call

vars ==
    <<env, fs, s3, pc, insecure, client, vaultClient, err, wfile, rfile,
      payload, snapshotFile, uploadResult, out, exit, trace, fs0, uploadInput>>

\* ------------------------------------------------------------ helpers

\* strconv.ParseBool
ParseBool(s) ==
    IF s \in {"1", "t", "T", "TRUE", "true", "True"}
      THEN [ok |-> TRUE, val |-> TRUE]
    ELSE IF s \in {"0", "f", "F", "FALSE", "false", "False"}
      THEN [ok |-> TRUE, val |-> FALSE]
    ELSE [ok |-> FALSE, val |-> FALSE]

\* One output line: a message, the path and the error value it prints.
Line(msg, path, cause) ==
    [msg |-> msg, path |-> path, cause |-> cause, loc |-> <<>>]

\* fmt.Println(msg)
Println(msg) == Line(msg, <<>>, NoErr)

\* fmt.Println(err), log.Fatalln(err)
PrintErr(e) == Line("", <<>>, e)

\* filepath.Base
RECURSIVE StripSlashes(_)
StripSlashes(path) ==
    IF Len(path) > 0 /\ path[Len(path)] = "/"
      THEN StripSlashes(SubSeq(path, 1, Len(path) - 1))
      ELSE path

RECURSIVE LastSlash(_, _)
LastSlash(path, i) ==
    IF i >= 1 /\ path[i] # "/" THEN LastSlash(path, i - 1) ELSE i

Base(path) ==
    IF path = <<>> THEN <<".">>
    ELSE LET q == StripSlashes(path)
             i == LastSlash(q, Len(q))
             b == IF i >= 1 THEN SubSeq(q, i + 1, Len(q)) ELSE q
         IN  IF b = <<>> THEN <<"/">> ELSE b

\* A write of bytes at offset off of a file (no O_APPEND): bytes there are
\* replaced, a gap is filled with zero bytes.
RECURSIVE Zeros(_)
Zeros(n) == IF n <= 0 THEN <<>> ELSE <<0>> \o Zeros(n - 1)

WriteAt(content, off, bytes) ==
    LET before == IF off <= Len(content)
                    THEN SubSeq(content, 1, off)
                    ELSE content \o Zeros(off - Len(content))
        after == SubSeq(content, off + Len(bytes) + 1, Len(content))
    IN  before \o bytes \o after

\* os.File.Close: the handle is closed whatever Close returns; a handle
\* that is already closed returns os.ErrClosed.
CloseOutcomes(h) ==
    IF h.state = "open"
      THEN { [h |-> [h EXCEPT !.state = "closed"], e |-> e] :
               e \in {NoErr, "close error"} }
      ELSE { [h |-> h, e |-> ErrClosed] }

\* s3manager PutObject: the object under bucket/key is replaced.
PutObject(objects, bucket, key, body) ==
    { o \in objects : ~(o.bucket = bucket /\ o.key = key) }
      \cup { [bucket |-> bucket, key |-> key, body |-> body] }

NoHandle == [state |-> "none", path |-> <<>>, off |-> 0]

\* ------------------------------------------------------------ initial
Init ==
    /\ env \in [Runs -> Environments]
    /\ \A p \in Runs \ {1} : env[p] = DefaultEnv
    /\ fs \in [Paths -> {Absent, Old}]
    /\ s3 = {}
    /\ pc = [p \in Runs |-> IF p = 1 THEN "ParseBool" ELSE "idle"]
    /\ insecure = [p \in Runs |-> FALSE]
    /\ client = [p \in Runs |-> <<>>]
    /\ vaultClient = [p \in Runs |-> <<>>]
    /\ err = [p \in Runs |-> NoErr]
    /\ wfile = [p \in Runs |-> NoHandle]
    /\ rfile = [p \in Runs |-> NoHandle]
    /\ payload = [p \in Runs |-> <<>>]
    /\ snapshotFile = [p \in Runs |-> <<>>]
    /\ uploadResult = [p \in Runs |-> <<>>]
    /\ out = [p \in Runs |-> <<>>]
    /\ exit = [p \in Runs |-> -1]
    /\ trace = [p \in Runs |-> <<>>]
    /\ fs0 = fs
    /\ uploadInput = [p \in Runs |-> <<>>]

\* ------------------------------------------------------ control flow
Goto(p, l) == pc' = [pc EXCEPT ![p] = l]

Does(p, op, file, e) ==
    trace' = [trace EXCEPT ![p] = Append(@, [op |-> op, file |-> file, err |-> e])]

\* The call in progress, the last of the trace, returns e.
Returns(p, e) == trace' = [trace EXCEPT ![p][Len(trace[p])].err = e]

Writes(p, lines) == out' = [out EXCEPT ![p] = @ \o lines]

\* os.Exit(status); log.Fatalln exits with status 1, a panic with 2
Exit(p, status) ==
    /\ exit' = [exit EXCEPT ![p] = status]
    /\ Goto(p, "exited")


\* ------------------------------------------------ main: configuration

\* mutant: the error of ParseBool is reported but does not end the run
ParseSkipVerifyGoesOn(p) ==
    /\ pc[p] = "ParseBool"
    /\ LET r == ParseBool(env[p].VAULT_SKIP_VERIFY) IN
         IF ~r.ok
           THEN /\ Does(p, "ParseBool", "", "invalid syntax")
                /\ Writes(p, <<Println("Invalid boolean value for VAULT_SKIP_VERIFY")>>)
                /\ Goto(p, "ConfigureTLS")
                /\ UNCHANGED <<insecure, exit>>
           ELSE /\ Does(p, "ParseBool", "", NoErr)
                /\ insecure' = [insecure EXCEPT ![p] = r.val]
                /\ Goto(p, "ConfigureTLS")
                /\ UNCHANGED <<out, exit>>
    /\ UNCHANGED <<env, fs0, uploadInput, fs, s3, client, vaultClient, err, wfile, rfile, payload,
                   snapshotFile, uploadResult>>

\* main: insecure, err := strconv.ParseBool(os.Getenv("VAULT_SKIP_VERIFY"))
\*       if err != nil { log.Fatalln("Invalid boolean value ...") }
ParseSkipVerify(p) ==
    /\ pc[p] = "ParseBool"
    /\ LET r == ParseBool(env[p].VAULT_SKIP_VERIFY) IN
         IF ~r.ok
           THEN /\ Does(p, "ParseBool", "", "invalid syntax")
                /\ Writes(p, <<Println("Invalid boolean value for VAULT_SKIP_VERIFY")>>)
                /\ Exit(p, 1)
                /\ UNCHANGED insecure
           ELSE /\ Does(p, "ParseBool", "", NoErr)
                /\ insecure' = [insecure EXCEPT ![p] = r.val]
                /\ Goto(p, "ConfigureTLS")
                /\ UNCHANGED <<out, exit>>
    /\ UNCHANGED <<env, fs0, uploadInput, fs, s3, client, vaultClient, err, wfile, rfile, payload,
                   snapshotFile, uploadResult>>

\* ------------------------------------------------- vaultClientConfig

\* return nil, e / return client, nil: main's vaultClient and err
ClientReturn(p, c, e) ==
    /\ vaultClient' = [vaultClient EXCEPT ![p] = c]
    /\ err' = [err EXCEPT ![p] = e]
    /\ Goto(p, "MainClientCheck")

\* err := vaultConfig.ConfigureTLS(&vault.TLSConfig{Insecure: config.insecure})
ConfigureTLS(p) ==
    /\ pc[p] = "ConfigureTLS"
    /\ \/ /\ Does(p, "ConfigureTLS", "", NoErr)
          /\ Goto(p, "NewClient")
          /\ UNCHANGED <<out, vaultClient, err>>
       \/ /\ Does(p, "ConfigureTLS", "", "tls error")
          /\ Writes(p, <<Println("Vault TLS configuration failed to initialize"),
                         PrintErr("tls error")>>)
          /\ ClientReturn(p, <<>>, "tls error")
    /\ UNCHANGED <<env, fs0, uploadInput, fs, s3, insecure, client, wfile, rfile, payload,
                   snapshotFile, uploadResult, exit>>

\* client, err := vault.NewClient(vaultConfig)
NewClient(p) ==
    /\ pc[p] = "NewClient"
    /\ \/ /\ Does(p, "NewClient", "", NoErr)
          /\ client' = [client EXCEPT ![p] = <<[token |-> <<>>]>>]
          /\ Goto(p, "Auth")
          /\ UNCHANGED <<out, vaultClient, err>>
       \/ /\ Does(p, "NewClient", "", "client error")
          /\ Writes(p, <<Println("Vault client failed to initialize"),
                         PrintErr("client error")>>)
          /\ ClientReturn(p, <<>>, "client error")
          /\ UNCHANGED client
    /\ UNCHANGED <<env, fs0, uploadInput, fs, s3, insecure, wfile, rfile, payload,
                   snapshotFile, uploadResult, exit>>

\* mutant: the sentinel misspelt
UsesIAMTypo(token) == token = <<"a", "w", "s", "_", "i", "a", "m">>

\* if config.token == "aws-iam"
UsesIAM(token) == token = Sentinel

\* mutant: the length test as a lower bound only
ValidTokenAtLeast(token) == Len(token) >= TokenLen

\* the negation of: len(config.token) != 26
ValidToken(token) == Len(token) = TokenLen

\* awsAuth, err := auth.NewAWSAuth(auth.WithIAMAuth())
\* if err != nil { return nil, errors.New("Unable to initialize ...") }
NewAWSAuth(p) ==
    /\ pc[p] = "Auth"
    /\ UsesIAM(env[p].VAULT_TOKEN)
    /\ \/ /\ Does(p, "NewAWSAuth", "", NoErr)
          /\ Goto(p, "Login")
          /\ UNCHANGED <<vaultClient, err>>
       \/ /\ Does(p, "NewAWSAuth", "", "awsauth error")
          /\ ClientReturn(p, <<>>, "Unable to initialize AWS IAM authentication")
    /\ UNCHANGED <<env, fs0, uploadInput, fs, s3, insecure, client, wfile, rfile, payload,
                   snapshotFile, uploadResult, out, exit>>

\* mutant: the failing returns hand the client back with the error
LoginReturnsClient(p) ==
    /\ pc[p] = "Login"
    /\ \/ /\ Does(p, "Login", "", NoErr)
          /\ client' = [client EXCEPT ![p] = <<[token |-> Tok(TokenLen)]>>]
          /\ ClientReturn(p, client'[p], NoErr)
       \/ /\ Does(p, "Login", "", "login error")
          /\ ClientReturn(p, client[p], "Unable to login to AWS IAM auth method")
          /\ UNCHANGED client
       \/ /\ Does(p, "Login", "", "no auth info")
          /\ ClientReturn(p, client[p], "No auth info was returned after login")
          /\ UNCHANGED client
    /\ UNCHANGED <<env, fs0, uploadInput, fs, s3, insecure, wfile, rfile, payload,
                   snapshotFile, uploadResult, out, exit>>

\* authInfo, err := client.Auth().Login(context.TODO(), awsAuth)
\* if err != nil { return nil, errors.New("Unable to login ...") }
\* if authInfo == nil { return nil, errors.New("No auth info ...") }
\* A successful login stores the session's token in the client.
Login(p) ==
    /\ pc[p] = "Login"
    /\ \/ /\ Does(p, "Login", "", NoErr)
          /\ client' = [client EXCEPT ![p] = <<[token |-> Tok(TokenLen)]>>]
          /\ ClientReturn(p, client'[p], NoErr)
       \/ /\ Does(p, "Login", "", "login error")
          /\ ClientReturn(p, <<>>, "Unable to login to AWS IAM auth method")
          /\ UNCHANGED client
       \/ /\ Does(p, "Login", "", "no auth info")
          /\ ClientReturn(p, <<>>, "No auth info was returned after login")
          /\ UNCHANGED client
    /\ UNCHANGED <<env, fs0, uploadInput, fs, s3, insecure, wfile, rfile, payload,
                   snapshotFile, uploadResult, out, exit>>

\* else: if len(config.token) != 26 { return nil, errors.New(...) }
\*       client.SetToken(config.token)
TokenAuth(p) ==
    /\ pc[p] = "Auth"
    /\ ~UsesIAM(env[p].VAULT_TOKEN)
    /\ IF ~ValidToken(env[p].VAULT_TOKEN)
         THEN /\ Does(p, "TokenCheck", "", "The Vault token is invalid")
              /\ ClientReturn(p, <<>>, "The Vault token is invalid")
              /\ UNCHANGED client
         ELSE /\ Does(p, "SetToken", "", NoErr)
              /\ client' = [client EXCEPT ![p] = <<[token |-> env[p].VAULT_TOKEN]>>]
              /\ ClientReturn(p, client'[p], NoErr)
    /\ UNCHANGED <<env, fs0, uploadInput, fs, s3, insecure, wfile, rfile, payload,
                   snapshotFile, uploadResult, out, exit>>

\* mutant: the driver goes on whatever vaultClientConfig returned
MainClientCheckIgnoresErr(p) ==
    /\ pc[p] = "MainClientCheck"
    /\ Goto(p, "OpenFile")
    /\ UNCHANGED <<env, fs0, uploadInput, fs, s3, insecure, client, vaultClient, err, wfile, rfile,
                   payload, snapshotFile, uploadResult, trace, out, exit>>

\* main: if err != nil { log.Fatalln("Vault client initialization ...") }
MainClientCheck(p) ==
    /\ pc[p] = "MainClientCheck"
    /\ IF err[p] # NoErr
         THEN /\ Writes(p, <<Println("Vault client initialization and configuration failed")>>)
              /\ Exit(p, 1)
         ELSE /\ Goto(p, "OpenFile")
              /\ UNCHANGED <<out, exit>>
    /\ UNCHANGED <<env, fs0, uploadInput, fs, s3, insecure, client, vaultClient, err, wfile, rfile,
                   payload, snapshotFile, uploadResult, trace>>

\* ------------------------------------------------- snapshotFileClose

\* mutant: a failed Close is reported but is not fatal
snapshotFileCloseNotFatal(p, r, file, next) ==
    /\ Does(p, "Close", file, r.e)
    /\ IF r.e # NoErr
         THEN Writes(p, <<Println("Vault raft snapshot file failed to close"),
                          PrintErr(r.e)>>)
         ELSE UNCHANGED out
    /\ Goto(p, next)
    /\ UNCHANGED exit

\* err := snapshotFile.Close(); if err != nil { fmt.Println(...);
\* log.Fatalln(err) }, with r the outcome of Close on the handle file;
\* control goes to next when the function returns.
snapshotFileClose(p, r, file, next) ==
    /\ Does(p, "Close", file, r.e)
    /\ IF r.e # NoErr
         THEN /\ Writes(p, <<Println("Vault raft snapshot file failed to close"),
                             PrintErr(r.e)>>)
              /\ Exit(p, 1)
         ELSE /\ Goto(p, next)
              /\ UNCHANGED <<out, exit>>

\* ------------------------------------------------- vaultRaftSnapshot

\* return f, e after the defer of snapshotFileClose is registered: the
\* results are set, then the deferred call runs.
SnapshotReturn(p, f, e) ==
    /\ snapshotFile' = [snapshotFile EXCEPT ![p] = f]
    /\ err' = [err EXCEPT ![p] = e]
    /\ Goto(p, "SnapshotDefer")

\* mutant: the file is created only while no other invocation has a handle
\* open on the path, as under an exclusive lock
OpenSnapshotFileLocked(p) ==
    /\ pc[p] = "OpenFile"
    /\ LET path == env[p].VAULT_SNAPSHOT_PATH IN
         \/ /\ \A q \in Runs \ {p} :
                 /\ ~(wfile[q].state = "open" /\ wfile[q].path = path)
                 /\ ~(rfile[q].state = "open" /\ rfile[q].path = path)
            /\ Does(p, "OpenFile", "w", NoErr)
            /\ fs' = [fs EXCEPT ![path] = <<>>]
            /\ wfile' = [wfile EXCEPT ![p] = [state |-> "open", path |-> path, off |-> 0]]
            /\ Goto(p, "RaftSnapshot")
            /\ UNCHANGED <<out, snapshotFile, err>>
         \/ /\ Does(p, "OpenFile", "w", "create error")
            /\ Writes(p, <<Line("snapshot file could not be created", path, NoErr),
                           PrintErr("create error")>>)
            /\ snapshotFile' = [snapshotFile EXCEPT ![p] = <<>>]
            /\ err' = [err EXCEPT ![p] = "create error"]
            /\ Goto(p, "MainSnapshotCheck")
            /\ UNCHANGED <<fs, wfile>>
    /\ UNCHANGED <<env, fs0, uploadInput, s3, insecure, client, vaultClient, rfile, payload,
                   uploadResult, exit>>

\* mutant: the file is opened without O_TRUNC
OpenSnapshotFileNoTrunc(p) ==
    /\ pc[p] = "OpenFile"
    /\ LET path == env[p].VAULT_SNAPSHOT_PATH IN
         \/ /\ Does(p, "OpenFile", "w", NoErr)
            /\ fs' = [fs EXCEPT ![path] = IF @ = Absent THEN <<>> ELSE @]
            /\ wfile' = [wfile EXCEPT ![p] = [state |-> "open", path |-> path, off |-> 0]]
            /\ Goto(p, "RaftSnapshot")
            /\ UNCHANGED <<out, snapshotFile, err>>
         \/ /\ Does(p, "OpenFile", "w", "create error")
            /\ Writes(p, <<Line("snapshot file could not be created", path, NoErr),
                           PrintErr("create error")>>)
            /\ snapshotFile' = [snapshotFile EXCEPT ![p] = <<>>]
            /\ err' = [err EXCEPT ![p] = "create error"]
            /\ Goto(p, "MainSnapshotCheck")
            /\ UNCHANGED <<fs, wfile>>
    /\ UNCHANGED <<env, fs0, uploadInput, s3, insecure, client, vaultClient, rfile, payload,
                   uploadResult, exit>>

\* snapshotFile, err := os.OpenFile(snapshotPath, O_CREATE|O_WRONLY|O_TRUNC, 0o644)
\* if err != nil { fmt.Println(...); fmt.Println(err); return nil, err }
OpenSnapshotFile(p) ==
    /\ pc[p] = "OpenFile"
    /\ LET path == env[p].VAULT_SNAPSHOT_PATH IN
         \/ /\ Does(p, "OpenFile", "w", NoErr)
            /\ fs' = [fs EXCEPT ![path] = <<>>]
            /\ wfile' = [wfile EXCEPT ![p] = [state |-> "open", path |-> path, off |-> 0]]
            /\ Goto(p, "RaftSnapshot")
            /\ UNCHANGED <<out, snapshotFile, err>>
         \/ /\ Does(p, "OpenFile", "w", "create error")
            /\ Writes(p, <<Line("snapshot file could not be created", path, NoErr),
                           PrintErr("create error")>>)
            /\ snapshotFile' = [snapshotFile EXCEPT ![p] = <<>>]
            /\ err' = [err EXCEPT ![p] = "create error"]
            /\ Goto(p, "MainSnapshotCheck")
            /\ UNCHANGED <<fs, wfile>>
    /\ UNCHANGED <<env, fs0, uploadInput, s3, insecure, client, vaultClient, rfile, payload,
                   uploadResult, exit>>

\* err = client.Sys().RaftSnapshot(snapshotFile): the request; it fails,
\* or the cluster starts to stream a snapshot.
RaftSnapshotRequest(p) ==
    /\ pc[p] = "RaftSnapshot"
    /\ \/ /\ \E s \in Payloads : payload' = [payload EXCEPT ![p] = s]
          /\ Does(p, "RaftSnapshot", "w", "running")
          /\ Goto(p, "Copy")
          /\ UNCHANGED err
       \/ /\ Does(p, "RaftSnapshot", "w", "stream error")
          /\ err' = [err EXCEPT ![p] = "stream error"]
          /\ Goto(p, "SnapshotCheck")
          /\ UNCHANGED payload
    /\ UNCHANGED <<env, fs0, uploadInput, fs, s3, insecure, client, vaultClient, wfile, rfile,
                   snapshotFile, uploadResult, out, exit>>

\* RaftSnapshot, streaming: the next byte is written to the file at the
\* handle's offset; or the call errors, mid-stream or on its final
\* verification; or it returns nil once the whole snapshot is written.
RaftSnapshotCopy(p) ==
    /\ pc[p] = "Copy"
    /\ LET h == wfile[p] IN
         \/ /\ h.off < Len(payload[p])
            /\ fs' = [fs EXCEPT ![h.path] = WriteAt(@, h.off, <<payload[p][h.off + 1]>>)]
            /\ wfile' = [wfile EXCEPT ![p].off = @ + 1]
            /\ UNCHANGED <<pc, err, trace>>
         \/ /\ Returns(p, "stream error")
            /\ err' = [err EXCEPT ![p] = "stream error"]
            /\ Goto(p, "SnapshotCheck")
            /\ UNCHANGED <<fs, wfile>>
         \/ /\ h.off = Len(payload[p])
            /\ Returns(p, NoErr)
            /\ err' = [err EXCEPT ![p] = NoErr]
            /\ Goto(p, "SnapshotCheck")
            /\ UNCHANGED <<fs, wfile>>
    /\ UNCHANGED <<env, fs0, uploadInput, s3, insecure, client, vaultClient, rfile, payload,
                   snapshotFile, uploadResult, out, exit>>

\* mutant: the error of RaftSnapshot is not checked
SnapshotCheckNoErrCheck(p) ==
    /\ pc[p] = "SnapshotCheck"
    /\ SnapshotReturn(p, <<wfile[p].path>>, NoErr)
    /\ UNCHANGED <<env, fs0, uploadInput, fs, s3, insecure, client, vaultClient, rfile, payload,
                   uploadResult, exit, wfile, trace, out>>

\* if err != nil { snapshotFile.Close(); fmt.Println(...); fmt.Println(err);
\* return nil, err }; return snapshotFile, nil
\* The result of this Close is dropped.
SnapshotCheck(p) ==
    /\ pc[p] = "SnapshotCheck"
    /\ IF err[p] # NoErr
         THEN /\ \E r \in CloseOutcomes(wfile[p]) :
                   /\ wfile' = [wfile EXCEPT ![p] = r.h]
                   /\ Does(p, "Close", "w", r.e)
              /\ Writes(p, <<Println("Vault Raft snapshot invocation failed"),
                             PrintErr(err[p])>>)
              /\ SnapshotReturn(p, <<>>, err[p])
         ELSE /\ SnapshotReturn(p, <<wfile[p].path>>, NoErr)
              /\ UNCHANGED <<wfile, trace, out>>
    /\ UNCHANGED <<env, fs0, uploadInput, fs, s3, insecure, client, vaultClient, rfile, payload,
                   uploadResult, exit>>

\* mutant: vaultRaftSnapshot returns without the deferred close
SnapshotDeferredCloseMissing(p) ==
    /\ pc[p] = "SnapshotDefer"
    /\ Goto(p, "MainSnapshotCheck")
    /\ UNCHANGED <<env, fs0, uploadInput, fs, s3, insecure, client, vaultClient, err, rfile,
                   payload, snapshotFile, uploadResult, wfile, trace, out, exit>>

\* defer snapshotFileClose(snapshotFile), run as vaultRaftSnapshot returns
SnapshotDeferredClose(p) ==
    /\ pc[p] = "SnapshotDefer"
    /\ \E r \in CloseOutcomes(wfile[p]) :
         /\ wfile' = [wfile EXCEPT ![p] = r.h]
         /\ snapshotFileClose(p, r, "w", "MainSnapshotCheck")
    /\ UNCHANGED <<env, fs0, uploadInput, fs, s3, insecure, client, vaultClient, err, rfile, payload,
                   snapshotFile, uploadResult>>

\* main: if err != nil { log.Fatalln("Vault Raft Snapshot failed") }
MainSnapshotCheck(p) ==
    /\ pc[p] = "MainSnapshotCheck"
    /\ IF err[p] # NoErr
         THEN /\ Writes(p, <<Println("Vault Raft Snapshot failed")>>)
              /\ Exit(p, 1)
         ELSE /\ Goto(p, "Open")
              /\ UNCHANGED <<out, exit>>
    /\ UNCHANGED <<env, fs0, uploadInput, fs, s3, insecure, client, vaultClient, err, wfile, rfile,
                   payload, snapshotFile, uploadResult, trace>>

\* -------------------------------------------------- snapshotS3Upload

\* return r, e after the defer of snapshotFileClose is registered
UploadReturn(p, r, e) ==
    /\ uploadResult' = [uploadResult EXCEPT ![p] = r]
    /\ err' = [err EXCEPT ![p] = e]
    /\ Goto(p, "UploadDefer")

\* mutant: the key is the prefix and the hyphen alone
UploadKeyPrefixOnly(prefix, snapshotPath) == prefix \o <<"-">>

\* mutant: the key is built from the whole path, not its base name
UploadKeyWholePath(prefix, snapshotPath) == prefix \o <<"-">> \o snapshotPath

\* Key: aws.String(config.s3Prefix + "-" + snapshotPathBase)
UploadKey(prefix, snapshotPath) == prefix \o <<"-">> \o Base(snapshotPath)

\* snapshotFile, err := os.Open(snapshotPath), snapshotPath being
\* main's snapshotFile.Name()
\* if err != nil { fmt.Printf("Failed to open ...", snapshotPath, err);
\* return nil, err }
OpenForUpload(p) ==
    /\ pc[p] = "Open"
    /\ LET snapshotPath == snapshotFile[p][1] IN
         \/ /\ fs[snapshotPath] # Absent
            /\ Does(p, "Open", "r", NoErr)
            /\ rfile' = [rfile EXCEPT ![p] =
                           [state |-> "open", path |-> snapshotPath, off |-> 0]]
            /\ Goto(p, "NewSession")
            /\ UNCHANGED <<out, uploadResult, err>>
         \/ /\ Does(p, "Open", "r", "open error")
            /\ Writes(p, <<Line("Failed to open snapshot file", snapshotPath, "open error")>>)
            /\ uploadResult' = [uploadResult EXCEPT ![p] = <<>>]
            /\ err' = [err EXCEPT ![p] = "open error"]
            /\ Goto(p, "MainUploadCheck")
            /\ UNCHANGED rfile
    /\ UNCHANGED <<env, fs0, uploadInput, fs, s3, insecure, client, vaultClient, wfile, payload,
                   snapshotFile, exit>>

\* awsSession := session.Must(session.NewSession(...)): Must panics on an
\* error, and the deferred close runs as the panic unwinds.
NewSession(p) ==
    /\ pc[p] = "NewSession"
    /\ \/ /\ Does(p, "NewSession", "", NoErr)
          /\ Goto(p, "Upload")
       \/ /\ Does(p, "NewSession", "", "session error")
          /\ Goto(p, "UploadPanic")
    /\ UNCHANGED <<env, fs0, uploadInput, fs, s3, insecure, client, vaultClient, err, wfile, rfile,
                   payload, snapshotFile, uploadResult, out, exit>>

\* mutant: a failed upload returns an empty result and no error
UploadDropsErr(p) ==
    /\ pc[p] = "Upload"
    /\ LET bucket == env[p].S3_BUCKET
           key == UploadKey(env[p].S3_PREFIX, rfile[p].path)
           body == fs[rfile[p].path]
       IN  /\ uploadInput' = [uploadInput EXCEPT ![p] =
                 <<[Bucket |-> bucket, Key |-> key, Body |-> body]>>]
           /\ \/ /\ Does(p, "Upload", "r", NoErr)
                 /\ s3' = PutObject(s3, bucket, key, body)
                 /\ UploadReturn(p, <<[Location |-> [bucket |-> bucket, key |-> key]]>>,
                                 NoErr)
                 /\ UNCHANGED out
              \/ /\ Does(p, "Upload", "r", "upload error")
                 /\ Writes(p, <<Println("Vault backup failed to upload to S3 bucket"),
                                PrintErr("upload error")>>)
                 /\ UploadReturn(p, <<[Location |-> [bucket |-> "", key |-> <<>>]]>>, NoErr)
                 /\ UNCHANGED s3
    /\ UNCHANGED <<env, fs0, fs, insecure, client, vaultClient, wfile, rfile, payload,
                   snapshotFile, exit>>

\* uploadResult, err := uploader.Upload(&s3manager.UploadInput{Bucket, Key,
\* Body: snapshotFile}): the body is what the file holds when it is read.
\* if err != nil { fmt.Println(...); fmt.Println(err); return nil, err }
\* return uploadResult, nil
Upload(p) ==
    /\ pc[p] = "Upload"
    /\ LET bucket == env[p].S3_BUCKET
           key == UploadKey(env[p].S3_PREFIX, rfile[p].path)
           body == fs[rfile[p].path]
       IN  /\ uploadInput' = [uploadInput EXCEPT ![p] =
                 <<[Bucket |-> bucket, Key |-> key, Body |-> body]>>]
           /\ \/ /\ Does(p, "Upload", "r", NoErr)
                 /\ s3' = PutObject(s3, bucket, key, body)
                 /\ UploadReturn(p, <<[Location |-> [bucket |-> bucket, key |-> key]]>>,
                                 NoErr)
                 /\ UNCHANGED out
              \/ /\ Does(p, "Upload", "r", "upload error")
                 /\ Writes(p, <<Println("Vault backup failed to upload to S3 bucket"),
                                PrintErr("upload error")>>)
                 /\ UploadReturn(p, <<>>, "upload error")
                 /\ UNCHANGED s3
    /\ UNCHANGED <<env, fs0, fs, insecure, client, vaultClient, wfile, rfile, payload,
                   snapshotFile, exit>>

\* defer snapshotFileClose(snapshotFile), run as snapshotS3Upload returns
UploadDeferredClose(p) ==
    /\ pc[p] = "UploadDefer"
    /\ \E r \in CloseOutcomes(rfile[p]) :
         /\ rfile' = [rfile EXCEPT ![p] = r.h]
         /\ snapshotFileClose(p, r, "r", "MainUploadCheck")
    /\ UNCHANGED <<env, fs0, uploadInput, fs, s3, insecure, client, vaultClient, err, wfile, payload,
                   snapshotFile, uploadResult>>

\* The same defer while session.Must's panic unwinds: log.Fatalln exits
\* with 1 if Close fails, else the runtime reports the panic and exits
\* with 2.
UploadPanicClose(p) ==
    /\ pc[p] = "UploadPanic"
    /\ \E r \in CloseOutcomes(rfile[p]) :
         /\ rfile' = [rfile EXCEPT ![p] = r.h]
         /\ Does(p, "Close", "r", r.e)
         /\ IF r.e # NoErr
              THEN /\ Writes(p, <<Println("Vault raft snapshot file failed to close"),
                                  PrintErr(r.e)>>)
                   /\ Exit(p, 1)
              ELSE /\ Writes(p, <<Line("panic:", <<>>, "session error")>>)
                   /\ Exit(p, 2)
    /\ UNCHANGED <<env, fs0, uploadInput, fs, s3, insecure, client, vaultClient, err, wfile, payload,
                   snapshotFile, uploadResult>>

\* mutant: main calls snapshotS3Upload again when it returned an error
MainUploadCheckRetries(p) ==
    /\ pc[p] = "MainUploadCheck"
    /\ IF err[p] # NoErr
         THEN /\ Writes(p, <<Println("S3 upload failed")>>)
              /\ Goto(p, "Open")
              /\ UNCHANGED exit
         ELSE /\ Goto(p, "Report")
              /\ UNCHANGED <<out, exit>>
    /\ UNCHANGED <<env, fs0, uploadInput, fs, s3, insecure, client, vaultClient, err, wfile,
                   rfile, payload, snapshotFile, uploadResult, trace>>

\* main: if err != nil { log.Fatalln("S3 upload failed") }
MainUploadCheck(p) ==
    /\ pc[p] = "MainUploadCheck"
    /\ IF err[p] # NoErr
         THEN /\ Writes(p, <<Println("S3 upload failed")>>)
              /\ Exit(p, 1)
         ELSE /\ Goto(p, "Report")
              /\ UNCHANGED <<out, exit>>
    /\ UNCHANGED <<env, fs0, uploadInput, fs, s3, insecure, client, vaultClient, err, wfile, rfile,
                   payload, snapshotFile, uploadResult, trace>>

\* main: fmt.Printf("Vault Raft snapshot uploaded to, %s\n", ...Location);
\* main returns and the process exits with 0.
Report(p) ==
    /\ pc[p] = "Report"
    /\ Writes(p, <<[Println("Vault Raft snapshot uploaded to,") EXCEPT
                      !.loc = <<uploadResult[p][1].Location>>]>>)
    /\ Exit(p, 0)
    /\ UNCHANGED <<env, fs0, uploadInput, fs, s3, insecure, client, vaultClient, err, wfile, rfile,
                   payload, snapshotFile, uploadResult, trace>>

\* ------------------------------------------------------ specification
Step(p) ==
    \/ ParseSkipVerify(p)
    \/ ConfigureTLS(p)
    \/ NewClient(p)
    \/ NewAWSAuth(p)
    \/ Login(p)
    \/ TokenAuth(p)
    \/ MainClientCheck(p)
    \/ OpenSnapshotFile(p)
    \/ RaftSnapshotRequest(p)
    \/ RaftSnapshotCopy(p)
    \/ SnapshotCheck(p)
    \/ SnapshotDeferredClose(p)
    \/ MainSnapshotCheck(p)
    \/ OpenForUpload(p)
    \/ NewSession(p)
    \/ Upload(p)
    \/ UploadDeferredClose(p)
    \/ UploadPanicClose(p)
    \/ MainUploadCheck(p)
    \/ Report(p)

Next == \E p \in Runs : Step(p)

\* One invocation, on staging paths that earlier runs may have used.
Spec == Init /\ [][Next]_vars

\* Two invocations at once, as when a scheduler starts the tool twice: well
\* formed configurations, either way of authenticating, fresh staging paths.
\* The first uses /a/s; the others use the same path, a path of the same
\* file name in another directory, or another file name.
ConcEnvironments ==
    [VAULT_TOKEN : {Sentinel, Tok(TokenLen)}, VAULT_SKIP_VERIFY : {"true", ""},
     VAULT_SNAPSHOT_PATH : Paths, S3_BUCKET : Buckets, S3_PREFIX : { <<"n">> }]

InitConc ==
    /\ env \in [Runs -> ConcEnvironments]
    /\ env[1].VAULT_SNAPSHOT_PATH = <<"/", "a", "/", "s">>
    /\ fs = [f \in Paths |-> Absent]
    /\ s3 = {}
    /\ pc = [p \in Runs |-> "ParseBool"]
    /\ insecure = [p \in Runs |-> FALSE]
    /\ client = [p \in Runs |-> <<>>]
    /\ vaultClient = [p \in Runs |-> <<>>]
    /\ err = [p \in Runs |-> NoErr]
    /\ wfile = [p \in Runs |-> NoHandle]
    /\ rfile = [p \in Runs |-> NoHandle]
    /\ payload = [p \in Runs |-> <<>>]
    /\ snapshotFile = [p \in Runs |-> <<>>]
    /\ uploadResult = [p \in Runs |-> <<>>]
    /\ out = [p \in Runs |-> <<>>]
    /\ exit = [p \in Runs |-> -1]
    /\ trace = [p \in Runs |-> <<>>]
    /\ fs0 = fs
    /\ uploadInput = [p \in Runs |-> <<>>]

SpecConc == InitConc /\ [][Next]_vars

\* The tool run again and again by its scheduler, one invocation at a time
\* on the staging path: an invocation starts when the ones before it have
\* exited, with the same environment.
SeqEnvironments ==
    [VAULT_TOKEN : {Sentinel, Tok(TokenLen)}, VAULT_SKIP_VERIFY : {"true"},
     VAULT_SNAPSHOT_PATH : { <<"/", "a", "/", "s">> }, S3_BUCKET : Buckets,
     S3_PREFIX : { <<"n">> }]

InitSeq ==
    /\ env \in [Runs -> SeqEnvironments]
    /\ \A p \in Runs : env[p] = env[1]
    /\ fs \in [Paths -> {Absent, Old}]
    /\ \A f \in Paths : f # env[1].VAULT_SNAPSHOT_PATH => fs[f] = Absent
    /\ s3 = {}
    /\ pc = [p \in Runs |-> IF p = 1 THEN "ParseBool" ELSE "idle"]
    /\ insecure = [p \in Runs |-> FALSE]
    /\ client = [p \in Runs |-> <<>>]
    /\ vaultClient = [p \in Runs |-> <<>>]
    /\ err = [p \in Runs |-> NoErr]
    /\ wfile = [p \in Runs |-> NoHandle]
    /\ rfile = [p \in Runs |-> NoHandle]
    /\ payload = [p \in Runs |-> <<>>]
    /\ snapshotFile = [p \in Runs |-> <<>>]
    /\ uploadResult = [p \in Runs |-> <<>>]
    /\ out = [p \in Runs |-> <<>>]
    /\ exit = [p \in Runs |-> -1]
    /\ trace = [p \in Runs |-> <<>>]
    /\ fs0 = fs
    /\ uploadInput = [p \in Runs |-> <<>>]

\* The scheduler starts the next invocation: main begins.
Launch(p) ==
    /\ pc[p] = "idle"
    /\ \A q \in Runs : q < p => pc[q] = "exited"
    /\ Goto(p, "ParseBool")
    /\ UNCHANGED <<env, fs0, uploadInput, fs, s3, insecure, client, vaultClient, err,
                   wfile, rfile, payload, snapshotFile, uploadResult, out, exit, trace>>

NextSeq ==
    \/ Next
    \/ \E p \in Runs : Launch(p)

SpecSeq == InitSeq /\ [][NextSeq]_vars

\* ------------------------------------------------- what a run has done
Exited(p) == pc[p] = "exited"

\* The run performed op, whatever it returned.
Did(p, op) == \E i \in DOMAIN trace[p] : trace[p][i].op = op

\* The run performed op on handle file and it returned e.
DidWith(p, op, file, e) ==
    \E i \in DOMAIN trace[p] :
      trace[p][i].op = op /\ trace[p][i].file = file /\ trace[p][i].err = e

\* The operations of the run that returned an error.
FailIdx(p) ==
    { i \in DOMAIN trace[p] : trace[p][i].err \notin {NoErr, "running"} }

MinOf(S) == CHOOSE x \in S : \A y \in S : x <= y

StreamFailed(p) == DidWith(p, "RaftSnapshot", "w", "stream error")

CloseFailed(p, file) ==
    \E i \in FailIdx(p) : trace[p][i].op = "Close" /\ trace[p][i].file = file

\* The run printed the upload location.
HasLocation(p) == \E k \in DOMAIN out[p] : out[p][k].loc # <<>>

LastLine(p) == out[p][Len(out[p])]

\* ------------------------------------------------------------- claims

\* C1: whenever RaftSnapshot has returned an error, the run makes no upload
\* call, only the error handling of vaultRaftSnapshot is left to run, and
\* once the run has ended the staging file handle is closed and the exit
\* status is not zero.
C1_StreamErrorNoUpload ==
    \A p \in Runs :
      StreamFailed(p) =>
        /\ ~Did(p, "Upload")
        /\ pc[p] \in {"SnapshotCheck", "SnapshotDefer", "exited"}
        /\ Exited(p) => wfile[p].state = "closed" /\ exit[p] # 0

C1_Witness ==
    \E p \in Runs :
      /\ StreamFailed(p) /\ Exited(p)
      /\ wfile[p].state = "closed" /\ wfile[p].off > 0
      /\ ~Did(p, "Upload")

\* C2: when RaftSnapshot errors after the staging file was created,
\* vaultRaftSnapshot hands (nil, the stream error) to the driver and the run
\* ends with the driver's report "Vault Raft Snapshot failed", no Close
\* having failed.
C2_StreamErrorReportedByDriver ==
    \A p \in Runs :
      (StreamFailed(p) /\ Exited(p)) =>
        /\ snapshotFile[p] = <<>> /\ err[p] = "stream error"
        /\ LastLine(p).msg = "Vault Raft Snapshot failed"
        /\ ~CloseFailed(p, "w")

\* C3: a failed Close fails the run: after a successful stream and a failed
\* close of the write handle the run makes no upload and has exited with a
\* status other than zero; after a successful upload and a failed close of
\* the read handle it has printed no location and has exited with a status
\* other than zero.
C3_CloseFailureFailsRun ==
    \A p \in Runs :
      /\ (DidWith(p, "RaftSnapshot", "w", NoErr) /\ CloseFailed(p, "w")) =>
           /\ ~Did(p, "Open") /\ ~Did(p, "Upload")
           /\ Exited(p) /\ exit[p] # 0
      /\ (DidWith(p, "Upload", "r", NoErr) /\ CloseFailed(p, "r")) =>
           /\ ~HasLocation(p)
           /\ Exited(p) /\ exit[p] # 0

C3_Witness ==
    \E p \in Runs :
      /\ DidWith(p, "Upload", "r", NoErr) /\ CloseFailed(p, "r")
      /\ DidWith(p, "Close", "w", NoErr)
      /\ exit[p] = 1

\* C4: with a credential that is not the sentinel and not 26 characters
\* long, the run never sets the token, never logs in, streams or uploads,
\* never gets past the client configuration, and vaultClientConfig, once
\* it reaches the credential, returns nil and the invalid token error.
C4_InvalidTokenRejected ==
    \A p \in Runs :
      (env[p].VAULT_TOKEN # Sentinel /\ Len(env[p].VAULT_TOKEN) # TokenLen) =>
        /\ \A op \in {"SetToken", "Login", "RaftSnapshot", "Upload"} : ~Did(p, op)
        /\ client[p] # <<>> => client[p][1].token = <<>>
        /\ vaultClient[p] = <<>>
        /\ pc[p] \in {"ParseBool", "ConfigureTLS", "NewClient", "Auth",
                      "MainClientCheck", "exited"}
        /\ (client[p] # <<>> /\ pc[p] # "Auth") =>
             err[p] = "The Vault token is invalid"

C4_Witness ==
    \E p \in Runs :
      /\ Len(env[p].VAULT_TOKEN) = TokenLen + 1
      /\ Exited(p) /\ exit[p] = 1
      /\ err[p] = "The Vault token is invalid"

\* C5: with the sentinel as credential the run authenticates by the IAM
\* login (NewAWSAuth, then Login) and never by the token branch: the length
\* check is not applied and SetToken is not called; a client reaches the
\* driver only after a successful Login.
C5_SentinelUsesLogin ==
    \A p \in Runs :
      env[p].VAULT_TOKEN = Sentinel =>
        /\ ~Did(p, "TokenCheck") /\ ~Did(p, "SetToken")
        /\ err[p] # "The Vault token is invalid"
        /\ (client[p] # <<>> /\ pc[p] # "Auth") => Did(p, "NewAWSAuth")
        /\ vaultClient[p] # <<>> => DidWith(p, "Login", "", NoErr)

C5_Witness ==
    \E p \in Runs :
      /\ env[p].VAULT_TOKEN = Sentinel
      /\ DidWith(p, "Login", "", NoErr)
      /\ Exited(p) /\ exit[p] = 0

\* C6: with the sentinel, once NewAWSAuth or Login has failed (or Login
\* returned no auth info) vaultClientConfig returns nil and an error, and
\* the run opens no staging file and makes no snapshot call: the paths
\* are as the run found them.
IAMFailed(p) ==
    \E i \in FailIdx(p) : trace[p][i].op \in {"NewAWSAuth", "Login"}

C6_LoginFailureNoClient ==
    \A p \in Runs :
      (env[p].VAULT_TOKEN = Sentinel /\ IAMFailed(p)) =>
        /\ vaultClient[p] = <<>> /\ err[p] # NoErr
        /\ ~Did(p, "OpenFile") /\ ~Did(p, "RaftSnapshot")
        /\ wfile[p] = NoHandle
        /\ fs = fs0
        /\ pc[p] \in {"MainClientCheck", "exited"}

C6_Witness ==
    \E p \in Runs :
      /\ DidWith(p, "Login", "", "no auth info")
      /\ Exited(p) /\ exit[p] = 1
      /\ fs0[env[p].VAULT_SNAPSHOT_PATH] = Old

\* C7: the three IAM failure points can be told apart from the output: two
\* runs that ended at different ones of them have written different lines.
IAMFailurePoint(p) ==
    IF DidWith(p, "NewAWSAuth", "", "awsauth error") THEN "init"
    ELSE IF DidWith(p, "Login", "", "login error") THEN "login"
    ELSE IF DidWith(p, "Login", "", "no auth info") THEN "session"
    ELSE "none"

C7_IAMFailuresObservable ==
    \A p, q \in Runs :
      ( /\ Exited(p) /\ Exited(q)
        /\ IAMFailurePoint(p) # "none" /\ IAMFailurePoint(q) # "none"
        /\ IAMFailurePoint(p) # IAMFailurePoint(q) )
      => out[p] # out[q]

\* C8: a run that ended on the failure of one of the listed stages has
\* written a message and the error value of every such failure.
ListedStages ==
    {"ConfigureTLS", "NewClient", "NewAWSAuth", "Login", "TokenCheck",
     "OpenFile", "RaftSnapshot", "Open", "Upload", "Close"}

C8_EveryCauseLogged ==
    \A p \in Runs :
      Exited(p) =>
        \A i \in FailIdx(p) :
          trace[p][i].op \in ListedStages =>
            /\ \E k \in DOMAIN out[p] : out[p][k].cause = trace[p][i].err
            /\ \E k \in DOMAIN out[p] : out[p][k].msg # ""

\* C9: once the upload call has returned an error, snapshotS3Upload's
\* result is nil, no location is ever printed, the read handle is closed
\* before control is back in the driver, and the exit status is not zero.
UploadFailed(p) == DidWith(p, "Upload", "r", "upload error")

C9_UploadErrorNoLocation ==
    \A p \in Runs :
      UploadFailed(p) =>
        /\ uploadResult[p] = <<>> /\ err[p] = "upload error"
        /\ ~HasLocation(p)
        /\ exit[p] # 0
        /\ pc[p] \in {"UploadDefer", "MainUploadCheck", "exited"}
        /\ pc[p] # "UploadDefer" => rfile[p].state = "closed"

C9_Witness ==
    \E p \in Runs :
      /\ UploadFailed(p) /\ Exited(p) /\ exit[p] = 1
      /\ rfile[p].state = "closed"
      /\ LastLine(p).msg = "S3 upload failed"

\* C10: the exit contract. Every stage succeeded: the run performed the
\* whole pipeline and no operation returned an error.
AllStagesSucceeded(p) ==
    /\ FailIdx(p) = {}
    /\ DidWith(p, "ParseBool", "", NoErr)
    /\ DidWith(p, "SetToken", "", NoErr) \/ DidWith(p, "Login", "", NoErr)
    /\ DidWith(p, "OpenFile", "w", NoErr)
    /\ DidWith(p, "RaftSnapshot", "w", NoErr)
    /\ DidWith(p, "Close", "w", NoErr)
    /\ DidWith(p, "Open", "r", NoErr)
    /\ DidWith(p, "Upload", "r", NoErr)
    /\ DidWith(p, "Close", "r", NoErr)

ExitZeroIffAllSucceeded(p) ==
    /\ Exited(p) => (exit[p] = 0 <=> AllStagesSucceeded(p))
    /\ Exited(p) => (HasLocation(p) <=> AllStagesSucceeded(p))
    /\ Exited(p) => exit[p] \in {0, 1, 2}
    /\ ~Exited(p) => (exit[p] = -1 /\ ~HasLocation(p))

\* C10 as claimed: exit status zero, and the location, exactly when every
\* stage succeeded; otherwise the first failing operation is the last
\* operation of the run.
C10_Original ==
    \A p \in Runs :
      /\ ExitZeroIffAllSucceeded(p)
      /\ FailIdx(p) # {} => MinOf(FailIdx(p)) = Len(trace[p])

\* C10 as amended: exit status zero, and the location, exactly when every
\* stage succeeded; otherwise the exit status is 1 or 2, and after the
\* first failing operation the run only closes the staging file handle
\* and reports.
C10_ExitContract ==
    \A p \in Runs :
      /\ ExitZeroIffAllSucceeded(p)
      /\ FailIdx(p) # {} =>
           /\ \A j \in DOMAIN trace[p] :
                j > MinOf(FailIdx(p)) => trace[p][j].op = "Close"
           /\ pc[p] \in {"MainClientCheck", "SnapshotCheck", "SnapshotDefer",
                         "MainSnapshotCheck", "UploadDefer", "UploadPanic",
                         "MainUploadCheck", "exited"}
           /\ Exited(p) => exit[p] \in {1, 2}

C10_Witness ==
    \E p \in Runs :
      /\ UploadFailed(p) /\ Exited(p)
      /\ MinOf(FailIdx(p)) < Len(trace[p])
      /\ trace[p][Len(trace[p])] = [op |-> "Close", file |-> "r", err |-> NoErr]

\* ------------------------------------------------------------ C11
\* The file name of a path that does not end in a separator: its longest
\* suffix without a separator.
FileNameOf(path) ==
    CHOOSE b \in { SubSeq(path, i, Len(path)) : i \in 1..(Len(path) + 1) } :
      /\ \A k \in DOMAIN b : b[k] # "/"
      /\ Len(b) = Len(path) \/ path[Len(path) - Len(b)] = "/"

\* The run has called Upload.
CalledUpload(p) == uploadInput[p] # <<>>

\* C11: whenever a run calls Upload, the key it passes is the configured
\* prefix, a hyphen and the file name of the staging path, the bucket is the
\* configured bucket, and the file opened for the upload is the one at the
\* staging path, which is the path the snapshot was written to.
C11_UploadDestination ==
    \A p \in Runs :
      CalledUpload(p) =>
        LET path == env[p].VAULT_SNAPSHOT_PATH
            input == uploadInput[p][1]
        IN  /\ input.Key = env[p].S3_PREFIX \o <<"-">> \o FileNameOf(path)
            /\ input.Bucket = env[p].S3_BUCKET
            /\ rfile[p].path = path
            /\ wfile[p].path = path

C11_Witness ==
    \E p \in Runs :
      /\ CalledUpload(p)
      /\ env[p].VAULT_SNAPSHOT_PATH = <<"/", "a", "/", "t">>
      /\ env[p].S3_PREFIX = <<"m">>
      /\ uploadInput[p][1].Key = <<"m", "-", "t">>
      /\ \E o \in s3 : o.key = <<"m", "-", "t">> /\ o.bucket = "bucket"

\* ------------------------------------------------------------ C12
\* The run's upload succeeded.
Uploaded(p) == DidWith(p, "Upload", "r", NoErr)

\* Runs p and q are two invocations with the same bucket and prefix.
SameDestination(p, q) ==
    /\ p # q
    /\ env[p].S3_BUCKET = env[q].S3_BUCKET
    /\ env[p].S3_PREFIX = env[q].S3_PREFIX

\* The object the run uploaded is in the bucket as the run uploaded it.
ObjectKept(p) ==
    \E o \in s3 :
      /\ o.bucket = uploadInput[p][1].Bucket
      /\ o.key = uploadInput[p][1].Key
      /\ o.body = uploadInput[p][1].Body

\* C12, as claimed: two concurrent invocations with the same bucket and
\* prefix and different staging paths upload to different keys, and neither
\* uploaded object is overwritten by the other's.
C12_Original ==
    \A p, q \in Runs :
      ( /\ SameDestination(p, q)
        /\ env[p].VAULT_SNAPSHOT_PATH # env[q].VAULT_SNAPSHOT_PATH
        /\ Uploaded(p) /\ Uploaded(q) ) =>
          /\ uploadInput[p][1].Key # uploadInput[q][1].Key
          /\ ObjectKept(p) /\ ObjectKept(q)

\* C12, amended: two concurrent invocations with the same bucket and prefix
\* whose staging paths have different file names upload to different keys,
\* and neither uploaded object is overwritten by the other's.
C12_DistinctFileNames ==
    \A p, q \in Runs :
      ( /\ SameDestination(p, q)
        /\ FileNameOf(env[p].VAULT_SNAPSHOT_PATH) # FileNameOf(env[q].VAULT_SNAPSHOT_PATH)
        /\ Uploaded(p) /\ Uploaded(q) ) =>
          /\ uploadInput[p][1].Key # uploadInput[q][1].Key
          /\ ObjectKept(p) /\ ObjectKept(q)

C12_Witness ==
    \E p, q \in Runs :
      /\ SameDestination(p, q)
      /\ FileNameOf(env[p].VAULT_SNAPSHOT_PATH) # FileNameOf(env[q].VAULT_SNAPSHOT_PATH)
      /\ Uploaded(p) /\ Uploaded(q)
      /\ uploadInput[p][1].Body # uploadInput[q][1].Body
      /\ Cardinality(s3) = 2

\* ------------------------------------------------------------ C13
\* The run's call of RaftSnapshot returned without error.
StreamOK(p) == DidWith(p, "RaftSnapshot", "w", NoErr)

\* No invocation started after run p has created the staging file again.
LatestOnPath(p) ==
    \A q \in Runs : q > p => ~DidWith(q, "OpenFile", "w", NoErr)

\* C13: when the tool is run again on the same staging path, the file holds
\* exactly the snapshot of the latest run that streamed one successfully,
\* whatever earlier runs or an earlier snapshot left there: nothing is
\* appended and no byte of longer earlier content remains.
C13_RerunTruncates ==
    \A p \in Runs :
      (StreamOK(p) /\ LatestOnPath(p)) =>
        fs[env[p].VAULT_SNAPSHOT_PATH] = payload[p]

C13_Witness ==
    /\ exit[1] = 0
    /\ exit[2] = 0
    /\ env[1].VAULT_SNAPSHOT_PATH = env[2].VAULT_SNAPSHOT_PATH
    /\ fs0[env[1].VAULT_SNAPSHOT_PATH] = Old
    /\ Len(payload[1]) > Len(payload[2])
    /\ fs[env[2].VAULT_SNAPSHOT_PATH] = payload[2]

\* ------------------------------------------------------------ C14
\* Control is in the driver after vaultRaftSnapshot returned, or the process
\* has exited.
AfterSnapshotter(p) ==
    pc[p] \in {"MainSnapshotCheck", "Open", "NewSession", "Upload", "UploadDefer",
               "UploadPanic", "MainUploadCheck", "Report", "exited"}

\* Control is in the driver after snapshotS3Upload returned, or the process
\* has exited.
AfterUploader(p) == pc[p] \in {"MainUploadCheck", "Report", "exited"}

\* C14: when vaultRaftSnapshot or snapshotS3Upload has returned control to
\* the driver, by a return or by the panic of the session creation, or has
\* ended the process, the handle it opened on the staging file is not open;
\* so no write handle is open when the upload stage runs and no handle is
\* open when the location is reported.
C14_ScopedClose ==
    \A p \in Runs :
      /\ AfterSnapshotter(p) => wfile[p].state # "open"
      /\ AfterUploader(p) => rfile[p].state # "open"

C14_Witness ==
    \E p \in Runs :
      /\ exit[p] = 2
      /\ DidWith(p, "NewSession", "", "session error")
      /\ wfile[p].state = "closed"
      /\ rfile[p].state = "closed"

\* ------------------------------------------------------------ C15
\* C15: with one invocation at a time on the staging path, whenever a run
\* calls Upload the body it passes is the whole snapshot that the cluster
\* streamed in that run, the stream call having returned success and the
\* write handle having been closed without error before: never a part of
\* the snapshot, an empty file or what an earlier run left.
C15_UploadsOwnCompleteSnapshot ==
    \A p \in Runs :
      CalledUpload(p) =>
        /\ uploadInput[p][1].Body = payload[p]
        /\ payload[p] \in Payloads
        /\ DidWith(p, "RaftSnapshot", "w", NoErr)
        /\ DidWith(p, "Close", "w", NoErr)
        /\ wfile[p].state = "closed"

C15_Witness ==
    \E p, q \in Runs :
      /\ q < p
      /\ exit[q] = 0
      /\ CalledUpload(p)
      /\ payload[q] # payload[p]
      /\ Len(payload[q]) > Len(payload[p])
      /\ uploadInput[p][1].Body = payload[p]

\* ------------------------------------------------------------ C16
\* The external operations of a run and their place in the pipeline:
\* authentication (the login, or the use of the configured token), creation
\* of the staging file, the snapshot stream call, the upload call.
StageOf(op) ==
    CASE op \in {"Login", "SetToken"} -> 1
      [] op = "OpenFile" -> 2
      [] op = "RaftSnapshot" -> 3
      [] op = "Upload" -> 4
      [] OTHER -> 0

StageIdx(p) == { i \in DOMAIN trace[p] : StageOf(trace[p][i].op) > 0 }

\* C16: in a run each external operation is invoked at most once, in the
\* order authenticate, create file, stream snapshot, upload; none is invoked
\* after one of them failed; and an upload call is made only after the
\* stream call of the run returned success.
C16_SingleAttemptInOrder ==
    \A p \in Runs :
      /\ \A i, j \in StageIdx(p) :
           i < j =>
             /\ StageOf(trace[p][i].op) < StageOf(trace[p][j].op)
             /\ trace[p][i].err = NoErr
      /\ \A j \in StageIdx(p) :
           \A n \in 1..(StageOf(trace[p][j].op) - 1) :
             \E i \in StageIdx(p) : i < j /\ StageOf(trace[p][i].op) = n
      /\ Did(p, "Upload") => DidWith(p, "RaftSnapshot", "w", NoErr)

C16_Witness ==
    \E p \in Runs :
      /\ Exited(p)
      /\ DidWith(p, "Upload", "r", "upload error")
      /\ Cardinality(StageIdx(p)) = 4
      /\ DidWith(p, "Login", "", NoErr)

\* ------------------------------------------------------------ C17
\* Run q has a handle open on the file at path, writing or reading it.
HoldsOpen(q, path) ==
    \/ wfile[q].state = "open" /\ wfile[q].path = path
    \/ rfile[q].state = "open" /\ rfile[q].path = path

\* The run creates its staging file, emptying the file at the path.
Truncates(p) ==
    /\ OpenSnapshotFile(p)
    /\ fs'[env[p].VAULT_SNAPSHOT_PATH] = <<>>

\* C17: the program takes no lock on the staging path: an invocation about
\* to create its staging file can do so, emptying the file, while another
\* invocation has the file at that path open for streaming into it or for
\* uploading it.  (C17_Witness is the interleaving this allows.)
C17_NoLockOnStagingPath ==
    \A p, q \in Runs :
      (p # q /\ pc[p] = "OpenFile" /\ HoldsOpen(q, env[p].VAULT_SNAPSHOT_PATH)) =>
        ENABLED Truncates(p)

\* An invocation that streamed a complete snapshot and closed the file calls
\* Upload with a body that is not that snapshot: the other invocation
\* emptied the file while the stream was being written, so the rest of the
\* stream landed behind a gap of zero bytes.
C17_Witness ==
    \E p, q \in Runs :
      /\ p # q
      /\ env[p].VAULT_SNAPSHOT_PATH = env[q].VAULT_SNAPSHOT_PATH
      /\ DidWith(p, "RaftSnapshot", "w", NoErr)
      /\ DidWith(p, "Close", "w", NoErr)
      /\ DidWith(q, "OpenFile", "w", NoErr)
      /\ CalledUpload(p)
      /\ uploadInput[p][1].Body # payload[p]
      /\ \E k \in DOMAIN uploadInput[p][1].Body : uploadInput[p][1].Body[k] = 0

\* ------------------------------------------------------------ C18
\* The calls of Close the run made on the handle file.
CloseIdx(p, file) ==
    { i \in DOMAIN trace[p] : trace[p][i].op = "Close" /\ trace[p][i].file = file }

\* C18: every handle a run opened on the staging file is closed exactly
\* once: no run calls Close twice on a handle, no Close finds its handle
\* already closed, and a run that has exited closed each handle it opened.
C18_ClosedExactlyOnce ==
    \A p \in Runs :
      \A file \in {"w", "r"} :
        /\ Cardinality(CloseIdx(p, file)) <= 1
        /\ ~DidWith(p, "Close", file, ErrClosed)
        /\ (Exited(p) /\ DidWith(p, IF file = "w" THEN "OpenFile" ELSE "Open", file, NoErr))
             => Cardinality(CloseIdx(p, file)) = 1

\* ------------------------------------------------------------ C19
\* An operation that precedes the creation of the staging file failed:
\* the parse of VAULT_SKIP_VERIFY, the TLS or client configuration, the
\* token length check, or the IAM authentication.
FailedBeforeCreation(p) ==
    \E i \in FailIdx(p) :
      trace[p][i].op \in {"ParseBool", "ConfigureTLS", "NewClient", "TokenCheck",
                          "NewAWSAuth", "Login"}

\* C19: a run in which an operation before the creation of the staging
\* file failed never creates or opens the file, and every path holds what
\* it held before the run: a file is neither created nor truncated.
C19_EarlyFailureLeavesFile ==
    \A p \in Runs :
      FailedBeforeCreation(p) =>
        /\ fs = fs0
        /\ ~Did(p, "OpenFile")
        /\ wfile[p] = NoHandle

C19_Witness ==
    \E p \in Runs :
      /\ Exited(p)
      /\ DidWith(p, "Login", "", "login error")
      /\ fs0[env[p].VAULT_SNAPSHOT_PATH] = Old
      /\ fs[env[p].VAULT_SNAPSHOT_PATH] = Old

=============================================================================
